---- MODULE Spec2Model ----
(***************************************************************************)
(* The workflow orchestration state machine of src/graph.py: the LangGraph *)
(* StateGraph over AgentState, its nine nodes, the three conditional edges *)
(* and the plain edges between them.                                       *)
(*                                                                         *)
(* The graph state is a Python dict.  It is modelled as a function from    *)
(* key names to values whose DOMAIN is the set of keys present, so that    *)
(* state.get(key, default) and the key-by-key overwrite that LangGraph     *)
(* applies to a node's returned partial update are modelled as they work.  *)
(*                                                                         *)
(* Around the graph: the caller of src/app.py, which copies its session    *)
(* dict into the initial state, folds every streamed update back into it   *)
(* and clears running_task when the run ends or fails; the knowledge       *)
(* search of the Manager agent; and the snapshots of src/storage.py.       *)
(***************************************************************************)
EXTENDS Integers, Sequences, FiniteSets, TLC

VARIABLES
    pc,       \* node the graph executes next: "START", a node name, "END" or "RAISED"
    state,    \* the AgentState dict held by the graph
    input,    \* the dict the run was invoked with (never changes during a run)
    trace,    \* the nodes executed so far, in order
    routes,   \* the value each conditional edge returned, in order
    verdicts, \* the verdicts the Judge agent returned, in order
    project_state, \* the caller's session dict, which takes in every streamed update
    event,    \* the last streamed event: the node, its update, its call's token usage
    error,    \* the exception that aborted the run, "none" while there is none
    context,  \* the context the Manager agent put into its latest prompt
    running_task, \* st.session_state["running_task"]: the task being run, or None
    run_no    \* the number of the run within the session, from 1

vars == <<pc, state, input, trace, routes, verdicts, project_state, event, error,
          context, running_task, run_no>>

----------------------------------------------------------------------------
(* Bounds *)

\* Largest token usage one LLM call reports to its TokenMeter.
MaxCallTokens == 1

\* Largest retry_count a run is invoked with (a session that ran before).
MaxInitRetry == 4

\* Longest node sequence explored; no run of the graph gets that long.
MaxSteps == 12

\* Number of runs explored in one session.
MaxRuns == 2

----------------------------------------------------------------------------
(* Python dict helpers *)

\* Python None.
None == "None"

\* state.get(k, d)
Get(s, k, d) == IF k \in DOMAIN s THEN s[k] ELSE d

\* LangGraph applies a node's returned dict to the state key by key; AgentState
\* declares no reducer, so every returned key overwrites the stored value.
Merge(s, u) ==
    [k \in (DOMAIN s) \cup (DOMAIN u) |-> IF k \in DOMAIN u THEN u[k] ELSE s[k]]

\* The update folded in with the session's own values winning.
dict_update_setdefault(d, u) ==
    [k \in (DOMAIN d) \cup (DOMAIN u) |-> IF k \in DOMAIN d THEN d[k] ELSE u[k]]

\* The session dict replaced by the update instead of updated with it.
dict_update_replace(d, u) == u

\* project_state.update(update) in app.py.
dict_update(d, u) ==
    [k \in (DOMAIN d) \cup (DOMAIN u) |-> IF k \in DOMAIN u THEN u[k] ELSE d[k]]

\* The empty dict.
EmptyDict == [k \in {} |-> None]

\* Optional[...] documents are opaque strings, None among them; a list that may
\* be None (diagram_path) is a sequence, None and [] both being <<>>: its only
\* reader in the graph, check_diagram_execution, tests its truthiness.
NoPaths == <<>>

----------------------------------------------------------------------------
(* model_factory.get_llm *)

models == {"openai", "gemini", "claude", "ollama"}

\* The table lookup models[provider][model_type] comes first, so a provider
\* that is not a key of the table raises KeyError there.
get_llm(provider, model_type) ==
    IF provider \notin models THEN "KeyError"
    ELSE IF provider \in {"openai", "gemini", "claude", "ollama"} THEN "client"
    ELSE "ValueError"

----------------------------------------------------------------------------
(* Values the collaborators produce *)

\* JudgeVerdict, reduced to the field the graph reads.
Approved == "JudgeVerdict(is_valid=True)"
Rejected == "JudgeVerdict(is_valid=False)"
Verdicts == {Approved, Rejected}
is_valid(verdict) == verdict = Approved

\* The usage a provider reports for one call; total_tokens = 0 stands for a
\* usage dict without that key.
Usages ==
    {u \in [prompt_tokens : 0..MaxCallTokens, completion_tokens : 0..MaxCallTokens,
            total_tokens : 0..(2 * MaxCallTokens)] :
        u.total_tokens \in {0, u.prompt_tokens + u.completion_tokens}}

\* TokenMeter.__init__ and TokenMeter._update
NewMeter == [prompt_tokens |-> 0, completion_tokens |-> 0, total_tokens |-> 0]

TokenMeter_update(meter, usage) ==
    LET p == usage.prompt_tokens
        c == usage.completion_tokens
        t == IF usage.total_tokens # 0 THEN usage.total_tokens ELSE p + c
    IN  [prompt_tokens |-> meter.prompt_tokens + p,
         completion_tokens |-> meter.completion_tokens + c,
         total_tokens |-> meter.total_tokens + t]

\* One structured LLM call: it raises (provider error, schema validation
\* failure) or returns, and its TokenMeter then holds the reported usage.
LlmResults ==
    {[ok |-> FALSE, tokens |-> 0]} \cup
    {[ok |-> TRUE, tokens |-> TokenMeter_update(NewMeter, u).total_tokens] : u \in Usages}

Log(role, message) == <<[role |-> role, message |-> message]>>

\* kb.search: it returns a report, or raises; the raised exception is written
\* as the string "SearchError".
KbSearchResults == {"SearchError", "=== WEB SEARCH ==="}

\* engineering_manager's context with the search exception left to propagate.
engineering_manager_context_uncaught(found) == found

\* The try/except around kb.search in engineering_manager.
engineering_manager_context(found) ==
    IF found = "SearchError" THEN "No knowledge base context available."
    ELSE found

----------------------------------------------------------------------------
(* Nodes of the architecture flow: the partial update each returns *)

today == "today"

\* manager_node reporting its own call's usage as the total.
manager_node_own_tokens(s, tokens) ==
    [hld |-> "HLD(Manager)",
     generated_date |-> today,
     total_tokens |-> tokens,
     logs |-> Log("Manager", "HLD drafted")]

manager_node(s, tokens) ==
    [hld |-> "HLD(Manager)",
     generated_date |-> today,
     total_tokens |-> Get(s, "total_tokens", 0) + tokens,
     logs |-> Log("Manager", "HLD drafted")]

security_node(s, tokens) ==
    [hld |-> "HLD(Security)",
     total_tokens |-> Get(s, "total_tokens", 0) + tokens,
     logs |-> Log("Security", "Security hardened")]

\* lead_node also switching the run to the code task.
lead_node_sets_task(s, tokens) ==
    [lld |-> "LLD(Lead)",
     task |-> "code",
     total_tokens |-> Get(s, "total_tokens", 0) + tokens,
     logs |-> Log("Lead", "LLD created")]

lead_node(s, tokens) ==
    [lld |-> "LLD(Lead)",
     total_tokens |-> Get(s, "total_tokens", 0) + tokens,
     logs |-> Log("Lead", "LLD created")]

judge_node(s, verdict, tokens) ==
    [verdict |-> verdict,
     total_tokens |-> Get(s, "total_tokens", 0) + tokens,
     logs |-> Log("Judge", IF is_valid(verdict) THEN "Verdict: Approved"
                                              ELSE "Verdict: Rejected")]

\* refiner_node returning a refined HLD and no LLD.
refiner_node_drops_lld(s, tokens) ==
    [hld |-> "HLD(Refiner)",
     lld |-> None,
     retry_count |-> Get(s, "retry_count", 0) + 1,
     total_tokens |-> Get(s, "total_tokens", 0) + tokens,
     logs |-> Log("Refiner", "Design refined")]

\* refiner_node counting a refinement twice.
refiner_node_double_increment(s, tokens) ==
    [hld |-> "HLD(Refiner)",
     lld |-> "LLD(Refiner)",
     retry_count |-> Get(s, "retry_count", 0) + 2,
     total_tokens |-> Get(s, "total_tokens", 0) + tokens,
     logs |-> Log("Refiner", "Design refined")]

\* refiner_node without the increment of retry_count.
refiner_node_no_increment(s, tokens) ==
    [hld |-> "HLD(Refiner)",
     lld |-> "LLD(Refiner)",
     retry_count |-> Get(s, "retry_count", 0),
     total_tokens |-> Get(s, "total_tokens", 0) + tokens,
     logs |-> Log("Refiner", "Design refined")]

refiner_node(s, tokens) ==
    [hld |-> "HLD(Refiner)",
     lld |-> "LLD(Refiner)",
     retry_count |-> Get(s, "retry_count", 0) + 1,
     total_tokens |-> Get(s, "total_tokens", 0) + tokens,
     logs |-> Log("Refiner", "Design refined")]

----------------------------------------------------------------------------
(* Nodes of the diagram flow and of the code flow *)

\* tools.run_diagram_code is called by the graph but not defined in tools.py.
\* What rendering one diagram returns: a path, or an error string in its place.
RenderResults == {"diagram.png", "Error: diagram failed to render"}
HasErrorText(r) == r = "Error: diagram failed to render"

\* The three rendering results visuals_node collects, in order.
RenderRuns == [1..3 -> RenderResults]

visuals_node(s, paths) ==
    [diagram_code |-> "Diagrams(Visuals)",
     diagram_path |-> paths,
     total_tokens |-> Get(s, "total_tokens", 0),
     logs |-> Log("Visuals", "Diagrams generated deterministically")]

\* agents.diagram_fixer declares eight positional parameters;
\* fix_diagram_node passes four.
diagram_fixer_params == 8
fix_diagram_call_args == 4

fix_diagram_node(s, paths, tokens) ==
    [diagram_code |-> "Diagrams(Fixer)",
     diagram_path |-> paths,
     total_tokens |-> Get(s, "total_tokens", 0) + tokens,
     logs |-> Log("Fixer", "Diagram fix attempted")]

\* agents.diagram_validator is called by the graph but not defined in
\* agents.py; it is taken to be one more structured LLM call.
DiagramValidatorResults == LlmResults

\* DiagramValidationResult, reduced to its verdict on the diagrams.
DiagramValidations ==
    {"DiagramValidationResult(valid_syntax=True)",
     "DiagramValidationResult(valid_syntax=False)"}

\* validator_node also storing the HLD copy it attached the diagrams to.
validator_node_stores_hld(s, validation, tokens) ==
    [diagram_validation |-> validation,
     hld |-> "HLD(Validator)",
     total_tokens |-> Get(s, "total_tokens", 0) + tokens]

validator_node(s, validation, tokens) ==
    [diagram_validation |-> validation,
     total_tokens |-> Get(s, "total_tokens", 0) + tokens]

\* scaffold_node starting its run with a zeroed retry counter.
scaffold_node_zeroes_retry(s, tokens) ==
    [scaffold |-> "ProjectStructure",
     retry_count |-> 0,
     total_tokens |-> Get(s, "total_tokens", 0) + tokens,
     logs |-> Log("Scaffold", "Project scaffold generated")]

scaffold_node(s, tokens) ==
    [scaffold |-> "ProjectStructure",
     total_tokens |-> Get(s, "total_tokens", 0) + tokens,
     logs |-> Log("Scaffold", "Project scaffold generated")]

----------------------------------------------------------------------------
(* Conditional logic *)

\* route_entry_point without the branch for the diagrams task.
route_entry_point_no_diagrams(s) ==
    LET task == Get(s, "task", "architecture")
    IN  IF task = "code" THEN "scaffold" ELSE "manager"

route_entry_point(s) ==
    LET task == Get(s, "task", "architecture")
    IN  IF task = "diagrams" THEN "visuals"
        ELSE IF task = "code" THEN "scaffold"
        ELSE "manager"

\* The retry ceiling check_quality compares retry_count against.
K == 2

\* check_quality comparing against a ceiling one higher.
check_quality_ceiling_plus_one(s) ==
    IF s["verdict"] # None /\ is_valid(s["verdict"]) THEN "approved"
    ELSE IF Get(s, "retry_count", 0) > K + 1 THEN "max_retries"
    ELSE "rejected"

\* check_quality with >= in place of >.
check_quality_ge(s) ==
    IF s["verdict"] # None /\ is_valid(s["verdict"]) THEN "approved"
    ELSE IF Get(s, "retry_count", 0) >= K THEN "max_retries"
    ELSE "rejected"

check_quality(s) ==
    IF s["verdict"] # None /\ is_valid(s["verdict"]) THEN "approved"
    ELSE IF Get(s, "retry_count", 0) > K THEN "max_retries"
    ELSE "rejected"

check_diagram_execution(s) ==
    LET result == Get(s, "diagram_path", NoPaths)
    IN  IF result # <<>> /\ (\E i \in DOMAIN result : HasErrorText(result[i]))
        THEN IF Get(s, "retry_count", 0) > 3 THEN "failed" ELSE "error"
        ELSE "success"

\* The path maps of the conditional edges; END is the terminal node.
EntryEdges == [manager |-> "manager", visuals |-> "visuals", scaffold |-> "scaffold"]
\* The Judge's path map with max_retries sent back into the loop.
JudgeEdges_max_retries_loops ==
    [rejected |-> "refiner", approved |-> "END", max_retries |-> "refiner"]

\* The Judge's path map with a rejection ending the run.
JudgeEdges_rejected_ends ==
    [rejected |-> "END", approved |-> "END", max_retries |-> "END"]

JudgeEdges == [rejected |-> "refiner", approved |-> "END", max_retries |-> "END"]
DiagramEdges == [success |-> "validator", error |-> "fix_diagram", failed |-> "validator"]

----------------------------------------------------------------------------
(* Snapshots: src/storage.py *)

\* _to_dict and the JSON file: None is written as null, here <<>>; a pydantic
\* object is written as its model_dump() dict, here <<"dict", object>>.
to_dict(obj) == IF obj = None THEN <<>> ELSE <<"dict", obj>>

\* What load_snapshot makes of such a value: a truthy one is given to the
\* schema's constructor, null is read back as None.
reconstruct(value) == IF value # <<>> THEN value[2] ELSE None

\* int(time.time()) at the time of saving.
now == 1

\* The keys save_snapshot passes through _to_dict and load_snapshot rebuilds.
PydanticKeys ==
    {"hld", "lld", "verdict", "scaffold", "diagram_code", "diagram_validation"}

\* The dict save_snapshot writes to the project's file.
save_snapshot(project_name, s) ==
    [project_name |-> project_name,
     user_request |-> Get(s, "user_request", ""),
     hld |-> to_dict(Get(s, "hld", None)),
     lld |-> to_dict(Get(s, "lld", None)),
     verdict |-> to_dict(Get(s, "verdict", None)),
     scaffold |-> to_dict(Get(s, "scaffold", None)),
     diagram_code |-> to_dict(Get(s, "diagram_code", None)),
     diagram_path |-> Get(s, "diagram_path", NoPaths),
     diagram_validation |-> to_dict(Get(s, "diagram_validation", None)),
     metrics |-> Get(s, "metrics", EmptyDict),
     total_tokens |-> Get(s, "total_tokens", 0),
     logs |-> Get(s, "logs", <<>>),
     timestamp |-> now]

\* The dict load_snapshot returns for a file with that content.
load_snapshot(data) ==
    [k \in DOMAIN data |->
        IF k \in PydanticKeys THEN reconstruct(data[k]) ELSE data[k]]

----------------------------------------------------------------------------
(* The states a run is invoked with *)

\* app.py builds the input from the session's project_state plus task,
\* api_key and provider.  A fresh session holds no designs and neither a
\* verdict nor a retry_count key; a session that ran before holds what the
\* earlier runs left behind.
Tasks == {"architecture", "diagrams", "code"}
TaskInputs == Tasks \cup {"review"}
Providers == {"openai", "mistral"}

FreshSession(provider) ==
    [user_request |-> "Build a URL shortener", provider |-> provider,
     api_key |-> "sk-key",
     hld |-> None, lld |-> None, scaffold |-> None,
     diagram_code |-> None, diagram_path |-> NoPaths,
     logs |-> <<>>, total_tokens |-> 0]

EarlierRun(provider, verdict, retry_count) ==
    Merge(FreshSession(provider),
          [hld |-> "HLD(Earlier)", lld |-> "LLD(Earlier)",
           verdict |-> verdict, retry_count |-> retry_count,
           logs |-> Log("Judge", "Verdict: Earlier"), total_tokens |-> 2])

\* The fields of AgentState: what the graph takes from the dict it is given.
AgentStateKeys ==
    {"task", "user_request", "provider", "api_key", "hld", "lld", "verdict",
     "diagram_code", "diagram_path", "diagram_validation", "scaffold",
     "retry_count", "total_tokens", "logs", "generated_date"}

\* A fresh session into which a snapshot was loaded (Load does
\* project_state.update(data)): the snapshot of a session whose architecture
\* run was aborted after the Manager had returned.
SnapshotSession(provider) ==
    LET saved == dict_update(FreshSession(provider),
                             manager_node(FreshSession(provider), 1))
        loaded == dict_update(FreshSession(provider),
                              load_snapshot(save_snapshot("MyGenAIApp", saved)))
    IN  [k \in (DOMAIN loaded) \cap AgentStateKeys |-> loaded[k]]

Sessions ==
    {FreshSession(p) : p \in Providers} \cup
    {SnapshotSession(p) : p \in Providers} \cup
    {EarlierRun(p, v, r) : p \in Providers, v \in Verdicts, r \in 0..MaxInitRetry}

\* With the task key, or without it (route_entry_point has a default).
Inputs ==
    Sessions \cup {Merge(s, [task |-> t]) : s \in Sessions, t \in TaskInputs}

\* The session dict the input was copied from: the input without the keys
\* app.py adds to the copy.
ProjectState(in) == [k \in (DOMAIN in) \ {"task", "api_key"} |-> in[k]]

Init ==
    /\ input \in Inputs
    /\ state = input
    /\ pc = "START"
    /\ trace = <<>>
    /\ routes = <<>>
    /\ verdicts = <<>>
    /\ project_state = ProjectState(input)
    /\ event = [node |-> "START", update |-> EmptyDict, tokens |-> 0]
    /\ error = "none"
    /\ context = None
    /\ running_task = Get(input, "task", None)
    /\ run_no = 1

----------------------------------------------------------------------------
(* Steps of the graph *)

\* A node returned: its update is merged, streamed to the caller, and the
\* outgoing edge chooses the node that runs next.
Return(node, update, tokens, next) ==
    /\ state' = Merge(state, update)
    /\ project_state' = dict_update(project_state, update)
    /\ event' = [node |-> node, update |-> update, tokens |-> tokens]
    /\ pc' = next
    /\ trace' = Append(trace, node)
    /\ running_task' = IF next = "END" THEN None ELSE running_task
    /\ UNCHANGED <<input, routes, verdicts, error, run_no>>

\* A node returned and its conditional edge, evaluated on the merged state,
\* chooses the node that runs next.
ReturnVia(node, update, tokens, route, edges) ==
    /\ state' = Merge(state, update)
    /\ project_state' = dict_update(project_state, update)
    /\ event' = [node |-> node, update |-> update, tokens |-> tokens]
    /\ pc' = edges[route]
    /\ trace' = Append(trace, node)
    /\ routes' = Append(routes, route)
    /\ verdicts' = IF node = "judge" THEN Append(verdicts, update["verdict"]) ELSE verdicts
    /\ running_task' = IF edges[route] = "END" THEN None ELSE running_task
    /\ UNCHANGED <<input, error, run_no>>

\* A node raised and the graph schedules the same node again.
Raise_and_rerun(node, exception) ==
    /\ pc' = node
    /\ error' = exception
    /\ trace' = Append(trace, node)
    /\ UNCHANGED <<state, input, routes, verdicts, project_state, event,
                   running_task, run_no>>

\* A node raised and running_task is left as it was.
Raise_keeps_running_task(node, exception) ==
    /\ pc' = "RAISED"
    /\ error' = exception
    /\ trace' = Append(trace, node)
    /\ UNCHANGED <<state, input, routes, verdicts, project_state, event,
                   running_task, run_no>>

\* A node raised: the run stops there, no update is applied or streamed, and
\* the caller's except clause clears running_task.
Raise(node, exception) ==
    /\ pc' = "RAISED"
    /\ error' = exception
    /\ trace' = Append(trace, node)
    /\ running_task' = None
    /\ UNCHANGED <<state, input, routes, verdicts, project_state, event, run_no>>

Start ==
    /\ pc = "START"
    /\ pc' = EntryEdges[route_entry_point(state)]
    /\ routes' = Append(routes, route_entry_point(state))
    /\ UNCHANGED <<state, input, trace, verdicts, project_state, event, error,
                   context, running_task, run_no>>

\* manager_node: get_llm, then engineering_manager, which searches the
\* knowledge base, builds its prompt around the context and makes the call.
Manager ==
    /\ pc = "manager"
    /\ Len(trace) < MaxSteps
    /\ IF get_llm(state["provider"], "smart") # "client"
       THEN Raise("manager", get_llm(state["provider"], "smart")) /\ UNCHANGED context
       ELSE \E found \in KbSearchResults, r \in LlmResults :
               LET ctx == engineering_manager_context(found)
               IN  IF ctx = "SearchError"
                   THEN Raise("manager", "SearchError") /\ UNCHANGED context
                   ELSE /\ context' = ctx
                        /\ IF r.ok
                           THEN Return("manager", manager_node(state, r.tokens),
                                       r.tokens, "security")
                           ELSE Raise("manager", "LLMError")

Security ==
    /\ pc = "security"
    /\ Len(trace) < MaxSteps
    /\ UNCHANGED context
    /\ IF get_llm(state["provider"], "smart") # "client"
       THEN Raise("security", get_llm(state["provider"], "smart"))
       ELSE IF state["hld"] = None THEN Raise("security", "AttributeError")
       ELSE \E r \in LlmResults :
               IF r.ok THEN Return("security", security_node(state, r.tokens), r.tokens, "team_lead")
               ELSE Raise("security", "LLMError")

Lead ==
    /\ pc = "team_lead"
    /\ Len(trace) < MaxSteps
    /\ UNCHANGED context
    /\ IF get_llm(state["provider"], "smart") # "client"
       THEN Raise("team_lead", get_llm(state["provider"], "smart"))
       ELSE IF state["hld"] = None THEN Raise("team_lead", "AttributeError")
       ELSE \E r \in LlmResults :
               IF r.ok THEN Return("team_lead", lead_node(state, r.tokens), r.tokens, "judge")
               ELSE Raise("team_lead", "LLMError")

Judge ==
    /\ pc = "judge"
    /\ Len(trace) < MaxSteps
    /\ UNCHANGED context
    /\ IF get_llm(state["provider"], "fast") # "client"
       THEN Raise("judge", get_llm(state["provider"], "fast"))
       ELSE IF state["hld"] = None \/ state["lld"] = None
       THEN Raise("judge", "AttributeError")
       ELSE \E r \in LlmResults, verdict \in Verdicts :
               IF r.ok
               THEN LET update == judge_node(state, verdict, r.tokens)
                    IN  ReturnVia("judge", update, r.tokens,
                                  check_quality(Merge(state, update)), JudgeEdges)
               ELSE Raise("judge", "LLMError")

Refiner ==
    /\ pc = "refiner"
    /\ Len(trace) < MaxSteps
    /\ UNCHANGED context
    /\ IF get_llm(state["provider"], "smart") # "client"
       THEN Raise("refiner", get_llm(state["provider"], "smart"))
       ELSE \E r \in LlmResults :
               IF r.ok THEN Return("refiner", refiner_node(state, r.tokens), r.tokens, "judge")
               ELSE Raise("refiner", "LLMError")

Visuals ==
    /\ pc = "visuals"
    /\ Len(trace) < MaxSteps
    /\ UNCHANGED context
    /\ IF state["hld"] = None THEN Raise("visuals", "AttributeError")
       ELSE \E paths \in RenderRuns :
               LET update == visuals_node(state, paths)
               IN  ReturnVia("visuals", update, 0,
                             check_diagram_execution(Merge(state, update)),
                             DiagramEdges)

FixDiagram ==
    /\ pc = "fix_diagram"
    /\ Len(trace) < MaxSteps
    /\ UNCHANGED context
    /\ IF get_llm(state["provider"], "smart") # "client"
       THEN Raise("fix_diagram", get_llm(state["provider"], "smart"))
       ELSE IF state["diagram_code"] = None THEN Raise("fix_diagram", "AttributeError")
       ELSE IF fix_diagram_call_args # diagram_fixer_params
       THEN Raise("fix_diagram", "TypeError")
       ELSE \E r \in LlmResults, n \in 0..3, paths \in RenderRuns :
               IF r.ok
               THEN LET update == fix_diagram_node(state, SubSeq(paths, 1, n), r.tokens)
                    IN  ReturnVia("fix_diagram", update, r.tokens,
                                  check_diagram_execution(Merge(state, update)),
                                  DiagramEdges)
               ELSE Raise("fix_diagram", "LLMError")

Validator ==
    /\ pc = "validator"
    /\ Len(trace) < MaxSteps
    /\ UNCHANGED context
    /\ IF get_llm(state["provider"], "fast") # "client"
       THEN Raise("validator", get_llm(state["provider"], "fast"))
       ELSE IF Get(state, "hld", None) = None THEN Raise("validator", "ValidationError")
       ELSE \E r \in DiagramValidatorResults, validation \in DiagramValidations :
               IF r.ok
               THEN Return("validator", validator_node(state, validation, r.tokens),
                           r.tokens, "END")
               ELSE Raise("validator", "LLMError")

\* Scaffold with a quality gate behind it.
Scaffold_gated ==
    /\ pc = "scaffold"
    /\ Len(trace) < MaxSteps
    /\ UNCHANGED context
    /\ IF get_llm(state["provider"], "smart") # "client"
       THEN Raise("scaffold", get_llm(state["provider"], "smart"))
       ELSE IF state["lld"] = None THEN Raise("scaffold", "AttributeError")
       ELSE \E r \in LlmResults :
               IF r.ok THEN Return("scaffold", scaffold_node(state, r.tokens), r.tokens, "judge")
               ELSE Raise("scaffold", "LLMError")

Scaffold ==
    /\ pc = "scaffold"
    /\ Len(trace) < MaxSteps
    /\ UNCHANGED context
    /\ IF get_llm(state["provider"], "smart") # "client"
       THEN Raise("scaffold", get_llm(state["provider"], "smart"))
       ELSE IF state["lld"] = None THEN Raise("scaffold", "AttributeError")
       ELSE \E r \in LlmResults :
               IF r.ok THEN Return("scaffold", scaffold_node(state, r.tokens), r.tokens, "END")
               ELSE Raise("scaffold", "LLMError")

Next ==
    \/ Start
    \/ Manager
    \/ Security
    \/ Lead
    \/ Judge
    \/ Refiner
    \/ Visuals
    \/ FixDiagram
    \/ Validator
    \/ Scaffold

Spec == Init /\ [][Next]_vars

\* Every node call returns or raises, and the graph then schedules the next
\* node: a run does not stop between nodes while one is due.
LiveSpec == Spec /\ WF_vars(Next)

----------------------------------------------------------------------------
(* The session: one run after the other *)

\* The buttons of the page that start a run: Generate/Regenerate Architecture
\* is always there, Generate Code and Generate Diagrams only while the session
\* holds the design to work from and not yet the artifact.
Offered(t) ==
    \/ t = "architecture"
    \/ t = "code" /\ project_state["scaffold"] = None /\ project_state["lld"] # None
    \/ t = "diagrams" /\ project_state["diagram_code"] = None
                      /\ project_state["hld"] # None

\* A button sets running_task and reruns the script; run_global_workflow_if_needed
\* then copies project_state into the initial state of the next run.
NewRun ==
    /\ pc \in {"END", "RAISED"}
    /\ running_task = None
    /\ run_no < MaxRuns
    /\ \E t \in Tasks :
          /\ Offered(t)
          /\ running_task' = t
          /\ input' = Merge(project_state,
                            [task |-> t, api_key |-> input["api_key"],
                             provider |-> project_state["provider"]])
    /\ state' = input'
    /\ pc' = "START"
    /\ trace' = <<>>
    /\ routes' = <<>>
    /\ verdicts' = <<>>
    /\ event' = [node |-> "START", update |-> EmptyDict, tokens |-> 0]
    /\ error' = "none"
    /\ run_no' = run_no + 1
    /\ UNCHANGED <<project_state, context>>

\* A session starts fresh, and its first run is an architecture run.
SessionInit ==
    /\ Init
    /\ input \in {Merge(FreshSession(p), [task |-> "architecture"]) : p \in Providers}

SessionNext ==
    \/ Start
    \/ Manager
    \/ Security
    \/ Lead
    \/ Judge
    \/ Refiner
    \/ Visuals
    \/ FixDiagram
    \/ Validator
    \/ Scaffold
    \/ NewRun

SessionSpec == SessionInit /\ [][SessionNext]_vars

----------------------------------------------------------------------------
(* Properties of the quality loop and of entry routing *)

\* Number of executions of node n so far.
Count(seq, n) == Cardinality({i \in DOMAIN seq : seq[i] = n})

\* retry_count as the conditional edges read it.
RetryCount(s) == Get(s, "retry_count", 0)

\* The run is an architecture run / one that started with retry_count = 0.
ArchRun == Get(input, "task", "missing") = "architecture"
ArchRun0 == ArchRun /\ RetryCount(input) = 0

\* Node n ran and returned in this step.
Returned(n) == trace' = Append(trace, n) /\ pc' # "RAISED"

\* The bound on the length of a run is never what stops one.
StepBoundUnused == pc \notin {"END", "RAISED"} => Len(trace) < MaxSteps

\* C1: every architecture run that starts with retry_count = 0 and in which
\* every node call returns reaches END, whatever verdicts the Judge returns.
C1_Termination == ArchRun0 => ([](pc # "RAISED") => <>(pc = "END"))

\* An architecture run from retry_count = 0 that went through the whole loop
\* and ended.
C1_Witness == ArchRun0 /\ pc = "END" /\ Count(trace, "refiner") = K + 1

\* C2: in an architecture run that starts with retry_count = 0 the Judge node
\* is executed at most K+1 times.
C2_JudgeBound == ArchRun0 => Count(trace, "judge") <= K + 1

\* C3: an architecture run that starts with retry_count = 0 has
\* retry_count <= K+1 when it reaches END.
C3_RetryCounterBound == (ArchRun0 /\ pc = "END") => RetryCount(state) <= K + 1

\* A run that ended with the counter at its bound.
C3_Witness == ArchRun0 /\ pc = "END" /\ RetryCount(state) = K + 1 /\ error = "none"

\* C4: every execution of judge_node raises retry_count by exactly 1 and no
\* other node changes retry_count.
C4_JudgeIncrements ==
    [][/\ Returned("judge") => RetryCount(state') = RetryCount(state) + 1
       /\ (trace' # trace /\ ~Returned("judge"))
             => RetryCount(state') = RetryCount(state)]_vars

\* C5: in an architecture run that starts with retry_count = 0, if the first
\* verdict is valid then Refiner never runs, the run goes from Judge to END and
\* retry_count is 1 at termination.
C5_ApprovalShortCircuit ==
    (ArchRun0 /\ verdicts # <<>> /\ is_valid(verdicts[1]))
        => /\ pc = "END"
           /\ trace = <<"manager", "security", "team_lead", "judge">>
           /\ RetryCount(state) = 1

\* C6: an architecture run from retry_count = 0 in which every verdict is
\* invalid ends through the max_retries edge without an error, with an invalid
\* verdict and retry_count = K+1.
C6_Exhaustion ==
    (ArchRun0 /\ pc = "END" /\ \A i \in DOMAIN verdicts : ~is_valid(verdicts[i]))
        => /\ routes[Len(routes)] = "max_retries"
           /\ error = "none"
           /\ ~is_valid(state["verdict"])
           /\ RetryCount(state) = K + 1

\* A run that ended after rejections only.
C6_Witness ==
    /\ ArchRun0 /\ pc = "END"
    /\ verdicts # <<>> /\ \A i \in DOMAIN verdicts : ~is_valid(verdicts[i])
    /\ routes[Len(routes)] = "max_retries"

\* C7: an architecture run from retry_count = 0 whose first verdict is invalid
\* and second valid executes Manager, Security, TeamLead, Judge, Refiner, Judge
\* and ends with a valid verdict, retry_count = 2 and at least 6 log entries.
C7_RejectOnceThenApprove ==
    (ArchRun0 /\ verdicts = <<Rejected, Approved>>)
        => /\ pc = "END"
           /\ trace = <<"manager", "security", "team_lead", "judge", "refiner", "judge">>
           /\ is_valid(state["verdict"])
           /\ RetryCount(state) = 2
           /\ Len(state["logs"]) >= 6

\* C8: after every Judge execution the next node is END if the verdict in the
\* merged state is valid, else END if retry_count > 2, else Refiner; after every
\* Refiner execution the next node is Judge.
C8_JudgeEdge ==
    [][/\ Returned("judge")
             => pc' = IF is_valid(state'["verdict"]) THEN "END"
                      ELSE IF RetryCount(state') > 2 THEN "END"
                      ELSE "refiner"
       /\ Returned("refiner") => pc' = "judge"]_vars

\* A run in which Judge sent the design to Refiner, Refiner handed it back to
\* Judge, and Judge ended the run.
C8_Witness ==
    /\ pc = "END"
    /\ \E i \in DOMAIN trace :
          /\ i + 2 <= Len(trace)
          /\ trace[i] = "judge" /\ trace[i + 1] = "refiner" /\ trace[i + 2] = "judge"

\* C9: whenever an architecture run has reached END the verdict is valid or
\* retry_count > 2, and a design whose verdict is valid is never at Refiner.
C9_ExitConditions ==
    /\ (ArchRun /\ pc = "END")
          => (is_valid(state["verdict"]) \/ RetryCount(state) > 2)
    /\ (ArchRun /\ pc = "refiner") => ~is_valid(state["verdict"])

\* A run that left the loop by exhaustion, one that did not start at 0.
C9_Witness ==
    /\ ArchRun /\ pc = "END" /\ RetryCount(input) > 0
    /\ ~is_valid(state["verdict"]) /\ RetryCount(state) > 2

\* C10: the first node executed is Visuals for task diagrams, Scaffold for
\* task code and Manager for task architecture, for any other task and for
\* no task.
C10_EntryRouting ==
    trace # <<>> =>
        trace[1] = IF Get(input, "task", "missing") = "diagrams" THEN "visuals"
                   ELSE IF Get(input, "task", "missing") = "code" THEN "scaffold"
                   ELSE "manager"

\* A diagrams run whose first node has run, in a session whose earlier run left
\* a verdict behind.
C10_Witness ==
    /\ Get(input, "task", "missing") = "diagrams"
    /\ trace # <<>> /\ trace[1] = "visuals"
    /\ "verdict" \in DOMAIN input

----------------------------------------------------------------------------
(* Properties of the accumulated state *)

IsPrefix(a, b) == Len(a) <= Len(b) /\ SubSeq(b, 1, Len(a)) = a

TotalTokens(s) == Get(s, "total_tokens", 0)

\* C11: across every node transition the logs of the graph state, and of the
\* caller's project_state, only grow at the end: the old logs are a prefix of
\* the new ones.
C11_LogAppendOnly ==
    [][/\ IsPrefix(state["logs"], state'["logs"])
       /\ IsPrefix(project_state["logs"], project_state'["logs"])]_vars

\* C12: total_tokens and retry_count never decrease from one state of a run to
\* the next, in the graph state and in project_state, and no update of a
\* TokenMeter by a non-negative usage lowers one of its three counters.
C12_MonotonicCounters ==
    [][/\ TotalTokens(state') >= TotalTokens(state)
       /\ RetryCount(state') >= RetryCount(state)
       /\ TotalTokens(project_state') >= TotalTokens(project_state)
       /\ RetryCount(project_state') >= RetryCount(project_state)
       /\ \A u1 \in Usages, u2 \in Usages :
             LET m1 == TokenMeter_update(NewMeter, u1)
                 m2 == TokenMeter_update(m1, u2)
             IN  /\ m2.prompt_tokens >= m1.prompt_tokens
                 /\ m2.completion_tokens >= m1.completion_tokens
                 /\ m2.total_tokens >= m1.total_tokens]_vars

\* A run that ended with both counters above where they started.
C12_Witness ==
    /\ pc = "END"
    /\ TotalTokens(state) > TotalTokens(input)
    /\ RetryCount(state) > RetryCount(input)

----------------------------------------------------------------------------
(* Properties of the diagram flow, of failures and of configuration *)

Task == Get(input, "task", "missing")

\* C13: every diagrams run that is given an HLD and a known provider, and in
\* which no LLM call fails, reaches END, also when renderings report errors.
C13_DiagramLoopBounded ==
    (Task = "diagrams" /\ input["hld"] # None /\ input["provider"] \in models)
        => ([](error # "LLMError") => <>(pc = "END"))

\* A node ran and returned in this step.
NodeReturned == trace' # trace /\ pc' # "RAISED"

\* C14: when a node returns, every field of the graph state, and of
\* project_state, that is not a key of the node's update is still there with
\* the value it had.
C14_FieldIndependence ==
    [][NodeReturned =>
         /\ \A k \in DOMAIN state :
               k \notin DOMAIN event'.update
                   => (k \in DOMAIN state' /\ state'[k] = state[k])
         /\ \A k \in DOMAIN project_state :
               k \notin DOMAIN event'.update
                   => (k \in DOMAIN project_state' /\ project_state'[k] = project_state[k])]_vars

\* Manager and Security have run on a state that held an LLD, a verdict and a
\* retry_count from an earlier run, and those are as they were.
C14_Witness ==
    /\ trace = <<"manager", "security">>
    /\ "verdict" \in DOMAIN input /\ RetryCount(input) > 0
    /\ state["lld"] = "LLD(Earlier)" /\ project_state["lld"] = "LLD(Earlier)"
    /\ state["verdict"] = input["verdict"]
    /\ state["retry_count"] = input["retry_count"]

\* The nodes that perform an LLM call.
LlmNodes ==
    {"manager", "security", "team_lead", "judge", "refiner",
     "fix_diagram", "validator", "scaffold"}

\* C15: every execution of a node that performs an LLM call adds the call's
\* token usage to total_tokens and returns at least one log entry.
C15_UniformSideEffects ==
    [][(NodeReturned /\ event'.node \in LlmNodes) =>
         /\ TotalTokens(state') = TotalTokens(state) + event'.tokens
         /\ "logs" \in DOMAIN event'.update
         /\ Len(event'.update["logs"]) >= 1]_vars

\* C16: a node that raises aborts the run at that node: the error leaves no
\* node scheduled, nothing executes once there is an error, and Refiner is
\* scheduled only by a Judge execution that returned an invalid verdict.
C16_FailureAborts ==
    [][/\ error = "none"
       /\ error' # "none" => (pc' = "RAISED" /\ state' = state)
       /\ (pc' = "refiner" /\ pc # "refiner")
             => /\ event'.node = "judge" /\ Returned("judge")
                /\ ~is_valid(state'["verdict"])
                /\ error' = "none"]_vars

\* A run that was aborted by a failing LLM call inside the quality loop.
C16_Witness ==
    /\ pc = "RAISED" /\ error = "LLMError"
    /\ trace # <<>> /\ trace[Len(trace)] = "refiner"
    /\ Count(trace, "refiner") = 2

\* C17: a run whose provider is unknown fails before any node has produced a
\* state update, whatever the task, and the failing step is not retried.
C17_ConfigFailFast ==
    input["provider"] \notin models
        => /\ state = input
           /\ project_state = ProjectState(input)
           /\ Len(trace) <= 1
           /\ trace # <<>> => pc = "RAISED"

\* C18: get_llm called with a provider outside the closed set fails with the
\* unknown-provider ValueError, for the fast and for the smart tier: a node that
\* asks for a client for such a provider is aborted by that error.
C18_UnknownProviderError ==
    (pc = "RAISED" /\ state["provider"] \notin models
        /\ trace[Len(trace)] \in LlmNodes)
      => error = "ValueError"

\* The nodes of the architecture flow.
QualityNodes == {"manager", "security", "team_lead", "judge", "refiner"}

\* C19: a run with task diagrams or code never executes Manager, Security,
\* TeamLead, Judge or Refiner, and hld, lld, verdict and retry_count stay as
\* they were in the initial state (absent, if they were absent).
C19_RerunIsolation ==
    Task \in {"diagrams", "code"}
        => /\ \A i \in DOMAIN trace : trace[i] \notin QualityNodes
           /\ \A k \in {"hld", "lld", "verdict", "retry_count"} :
                 /\ k \in DOMAIN state <=> k \in DOMAIN input
                 /\ k \in DOMAIN input => state[k] = input[k]

\* A code run that ended, in a session whose earlier run left a verdict and a
\* retry_count behind.
C19_Witness ==
    /\ Task = "code" /\ pc = "END" /\ trace = <<"scaffold">>
    /\ "verdict" \in DOMAIN input /\ RetryCount(input) > 0

\* C20: when Validator has run, the next node is END whatever the validation
\* result, and of the state's fields only diagram_validation and total_tokens
\* may differ from before.
C20_ValidatorObserves ==
    [][Returned("validator") =>
         /\ pc' = "END"
         /\ DOMAIN event'.update = {"diagram_validation", "total_tokens"}
         /\ \A k \in DOMAIN state' :
               k \notin {"diagram_validation", "total_tokens"}
                   => (k \in DOMAIN state /\ state'[k] = state[k])]_vars

\* A run that ended after Validator found the diagrams invalid.
C20_Witness ==
    /\ pc = "END" /\ trace[Len(trace)] = "validator"
    /\ state["diagram_validation"] = "DiagramValidationResult(valid_syntax=False)"

----------------------------------------------------------------------------
(* Properties of the topology, of the run's inputs and of streaming *)

\* C21: a run with task code executes Scaffold and nothing else: the only
\* route evaluated is the entry route, and once Scaffold has run no node is
\* scheduled.
C21_CodePathUngated ==
    Task = "code"
        => /\ trace \in {<<>>, <<"scaffold">>}
           /\ routes \in {<<>>, <<"scaffold">>}
           /\ trace = <<"scaffold">> => pc \in {"END", "RAISED"}

\* A code run that ended after Scaffold returned the scaffold.
C21_Witness ==
    /\ Task = "code" /\ pc = "END" /\ trace = <<"scaffold">>
    /\ state["scaffold"] # None

\* The run entered the architecture path.
ArchPath == routes # <<>> /\ routes[1] = "manager"

\* C22: on the architecture path the nodes run in the order Manager, Security,
\* TeamLead, Judge, and whenever Judge is about to run, the first time and
\* after each Refiner, hld and lld are both present.
C22_TopologyOrdering ==
    ArchPath
        => /\ IsPrefix(trace, <<"manager", "security", "team_lead", "judge">>)
              \/ IsPrefix(<<"manager", "security", "team_lead", "judge">>, trace)
           /\ pc = "judge" => (state["hld"] # None /\ state["lld"] # None)
           /\ \A i \in DOMAIN trace :
                 trace[i] \in {"manager", "security", "team_lead"} => i <= 3

\* Judge is about to run after a Refiner, in a session that began with no
\* design at all.
C22_Witness ==
    /\ ArchPath /\ pc = "judge" /\ trace[Len(trace)] = "refiner"
    /\ input["hld"] = None /\ input["lld"] = None

\* The inputs of a run.
InputKeys == {"task", "user_request", "provider", "api_key"}

\* C23: task, user_request, provider and api_key have in every state of a run
\* the value they had in the initial state, and no node's update contains one
\* of them.
C23_ImmutableInputs ==
    \A k \in InputKeys :
        /\ k \in DOMAIN state <=> k \in DOMAIN input
        /\ k \in DOMAIN input => state[k] = input[k]
        /\ k \notin DOMAIN event.update

\* An architecture run that went through the whole loop and ended.
C23_Witness ==
    /\ Task = "architecture" /\ pc = "END"
    /\ Count(trace, "refiner") >= 1 /\ event.node = "judge"

\* The initial state with the streamed updates folded into it, in order.
StreamFold == dict_update(input, project_state)

RefinerReturns ==
    Count(trace, "refiner")
        - (IF pc = "RAISED" /\ trace[Len(trace)] = "refiner" THEN 1 ELSE 0)

\* C29: retry_count is its initial value plus the number of Refiner
\* executions that have returned so far, and at END of an architecture-path
\* run Judge has run once more than Refiner.
C29_RefinerAccounting ==
    /\ RetryCount(state) = RetryCount(input) + RefinerReturns
    /\ (ArchPath /\ pc = "END")
          => Count(trace, "judge") = Count(trace, "refiner") + 1

\* An architecture run that ended after three refinements.
C29_Witness ==
    /\ ArchPath /\ pc = "END" /\ Count(trace, "refiner") = 3
    /\ RetryCount(state) = RetryCount(input) + 3

----------------------------------------------------------------------------
(* Properties of the knowledge search, of snapshots and of the session *)

NoContext == "No knowledge base context available."

\* C26: a knowledge search that raises never aborts the run: the Manager
\* makes its LLM call with the placeholder context, and when that call
\* returns the run continues at Security.
C26_SearchFailureNotFatal ==
    /\ error # "SearchError"
    /\ (context = NoContext /\ trace # <<>> /\ trace[Len(trace)] = "manager")
          => \/ pc = "security" /\ event.node = "manager" /\ state["hld"] # None
             \/ pc = "RAISED" /\ error = "LLMError"

\* The Manager returned an HLD from a prompt with the placeholder context and
\* Security is next.
C26_Witness ==
    /\ context = NoContext /\ pc = "security" /\ trace = <<"manager">>
    /\ state["hld"] = "HLD(Manager)"

\* The fields of the pipeline state a snapshot is to keep, and a field's value
\* with an absent key read as the field's empty value.
SnapshotFields ==
    {"user_request", "hld", "lld", "verdict", "diagram_code", "diagram_path",
     "diagram_validation", "scaffold", "retry_count", "total_tokens", "logs"}

Field(s, k) ==
    Get(s, k, IF k \in {"retry_count", "total_tokens"} THEN 0
              ELSE IF k \in {"logs", "diagram_path"} THEN <<>>
              ELSE IF k = "user_request" THEN ""
              ELSE None)

\* Save Progress followed by load_snapshot of the file written.
RoundTrip(s) == load_snapshot(save_snapshot("MyGenAIApp", s))

\* C27: the session state a finished run leaves behind in a session that
\* was fresh or loaded before, when it holds an HLD, saved with save_snapshot
\* and loaded again with load_snapshot, comes back equal in every field of
\* the pipeline state, retry_count among them.
C27_SnapshotRoundTrip ==
    (/\ pc \in {"END", "RAISED"}
     /\ "retry_count" \notin DOMAIN input
     /\ project_state["hld"] # None)
        => \A k \in SnapshotFields :
              Field(RoundTrip(project_state), k) = Field(project_state, k)

\* C28: check_quality on a state whose verdict is None, as the state of a
\* session loaded from a snapshot is until the Judge has returned, yields
\* neither rejected nor max_retries.
C28_MissingVerdictNotRejected ==
    (pc = "judge" /\ "verdict" \in DOMAIN state /\ state["verdict"] = None)
        => check_quality(state) \notin {"rejected", "max_retries"}

\* C25: every run starts from an initial state whose retry_count is 0, the
\* run after an earlier run of the session too.
C25_FreshCounters == pc = "START" => RetryCount(state) = 0

\* C30: when a node raises, project_state is left holding the updates of the
\* nodes that returned before it, which is the graph's state without task and
\* api_key, and not the pre-run state; running_task is cleared; and nothing
\* of the run executes after the failure.
C30_PartialStateOnFailure ==
    [][/\ pc # "RAISED"
       /\ pc' = "RAISED"
             => /\ project_state' = project_state
                /\ project_state' = ProjectState(state')
                /\ running_task' = None]_vars

\* An architecture run started by the page failed in its fourth node or
\* later, and project_state holds what the earlier nodes returned.
C30_Witness ==
    /\ pc = "RAISED" /\ running_task = None /\ Task = "architecture"
    /\ Len(trace) >= 4
    /\ project_state # ProjectState(input)
    /\ project_state["lld"] = "LLD(Lead)"

====
